---- MODULE Spec2Model ----
(***************************************************************************)
(* Model of the embedding-generation and vector-migration core of          *)
(* cryptique:                                                              *)
(*   backend/python/services/embedding_generator.py  (EmbeddingGenerator)  *)
(*   backend/python/services/vector_migrator.py      (VectorMigrator)      *)
(*                                                                         *)
(* Eleven specifications share the variables of this module:               *)
(*   SpecGen   the generator: consecutive generate_embedding calls;        *)
(*   SpecBatch the generator: one generate_batch_embeddings call with its  *)
(*             worker pool;                                                *)
(*   SpecMig   the migrator: migrate_all_data runs, pause_migration and    *)
(*             resume_migration calls, process restarts;                   *)
(*   SpecCkpt  _save_checkpoint / _load_checkpoint driven as in            *)
(*             test_checkpoint_save_and_load;                              *)
(*   SpecSim   calculate_similarity calls;                                 *)
(*   SpecVal   EmbeddingQualityValidator.validate_embedding calls;         *)
(*   SpecDup   vector documents inserted record by record, and             *)
(*             validate_migration;                                         *)
(*   SpecSample  _validate_sample calls;                                   *)
(*   SpecExtract _extract_analytics_content calls;                         *)
(*   SpecProc  one _process_analytics_batch call, record by record;        *)
(*   SpecSave  _save_checkpoint over an existing checkpoint file, then     *)
(*             _load_checkpoint.                                           *)
(* Each specification leaves the other subsystems' variables unchanged.    *)
(***************************************************************************)
EXTENDS Integers, Sequences, FiniteSets, TLC

VARIABLES
    (* EmbeddingGenerator *)
    cache,        \* self.cache: cache_key -> EmbeddingResult
    cacheDb,      \* the durable "embedding_cache" collection, in insertion order
    calls,        \* the generate_embedding calls made: their number, the two latest
    batch,        \* the generate_batch_embeddings call in progress (arguments, position)
    workers,      \* the ThreadPoolExecutor's futures of the chunk in progress
    acc,          \* generate_batch_embeddings' accumulators
    batchResult,  \* the BatchEmbeddingResult returned, and what each index really produced
    (* VectorMigrator *)
    config,       \* self.config (MigrationConfig)
    progress,     \* self.progress (MigrationProgress)
    flags,        \* self.is_running, self.should_pause
    ckptFile,     \* the checkpoint file on disk
    store,        \* the document store: source collections and "vectordocuments"
    run,          \* the migrate_all_data coroutine: position and locals
    hist,         \* observations of the run in progress (history, not program state)
    (* checkpoint round trip *)
    rt,           \* position and saved values of the save / discard / load sequence
    (* calls of calculate_similarity and validate_embedding *)
    fn,           \* the call: its arguments, and its outcome once it has returned
    (* the "vectordocuments" collection by documentId *)
    vstore        \* the documents per documentId, the inserts made, the validation report

genVars == <<cache, cacheDb, calls, batch, workers, acc, batchResult>>
migVars == <<config, progress, flags, ckptFile, store, run, hist>>
auxVars == <<fn, vstore>>
vars == <<cache, cacheDb, calls, batch, workers, acc, batchResult,
          config, progress, flags, ckptFile, store, run, hist, rt, fn, vstore>>

(***************************************************************************)
(* Bounds                                                                  *)
(***************************************************************************)
MaxCalls == 2       \* generate_embedding calls per behaviour
MaxTexts == 2       \* texts per generate_batch_embeddings call

(***************************************************************************)
(* Small helpers                                                           *)
(***************************************************************************)
Min(a, b) == IF a < b THEN a ELSE b

Range(s) == {s[i] : i \in DOMAIN s}

\* all orderings of the elements of a finite set
Perms(S) == {p \in [1..Cardinality(S) -> S] : \A a \in S : \E i \in DOMAIN p : p[i] = a}

(***************************************************************************)
(* EmbeddingModel, texts, contexts                                         *)
(***************************************************************************)
\* class EmbeddingModel(Enum): the member values
EmbeddingModel == {"gemini", "openai", "sentence_transformer", "huggingface", "local"}

\* the models generate_embedding dispatches on; "local" reaches the else branch
SupportedModels == {"gemini", "openai", "sentence_transformer", "huggingface"}

\* the models the calls of this model are made with
CallModels == {"gemini", "local"}

\* input texts; both are already stripped and far below the 8000 character budget
Texts == {"short", "a longer text"}

\* a context dict, by the values of its recognised keys ("" = key absent or falsy);
\* given = FALSE is context=None (or an empty dict, which `if context:` treats alike)
NoContext == [given |-> FALSE, data_type |-> "", source_type |-> "", timeframe |-> "", importance |-> ""]

\* the contexts the calls of this model are made with
Contexts ==
    {NoContext,
     [given |-> TRUE, data_type |-> "analytics", source_type |-> "analytics", timeframe |-> "", importance |-> "7"]}

None == <<>>
Some(v) == <<v>>

RECURSIVE Join(_, _)
\* sep.join(parts)
Join(sep, parts) ==
    IF parts = <<>> THEN ""
    ELSE IF Len(parts) = 1 THEN parts[1]
    ELSE parts[1] \o sep \o Join(sep, Tail(parts))

\* EmbeddingGenerator._format_context
FormatContext(context) ==
    Join(" | ",
         (IF context.data_type # "" THEN <<"Data Type: " \o context.data_type>> ELSE <<>>)
         \o (IF context.source_type # "" THEN <<"Source: " \o context.source_type>> ELSE <<>>)
         \o (IF context.timeframe # "" THEN <<"Timeframe: " \o context.timeframe>> ELSE <<>>)
         \o (IF context.importance # "" THEN <<"Importance: " \o context.importance \o "/10">> ELSE <<>>))

max_tokens == 8000

\* EmbeddingGenerator._preprocess_text (the texts of Texts carry no outer blanks,
\* so text.strip() returns them unchanged)
PreprocessText(text, context) ==
    LET withContext == IF context.given
                       THEN FormatContext(context) \o "\n\n" \o text
                       ELSE text
    IN IF Len(withContext) > max_tokens THEN SubSeq(withContext, 1, max_tokens) ELSE withContext

(***************************************************************************)
(* Vectors, the provider adapters and the quality validator                *)
(***************************************************************************)
\* model_configs[...]['dimensions'] of the four configured models
ModelDimensions(model) ==
    CASE model = "gemini" -> 1536
      [] model = "openai" -> 3072
      [] model = "sentence_transformer" -> 384
      [] model = "huggingface" -> 768
      [] OTHER -> 0

\* What a provider call can do: raise, or return a vector of some numeric make-up
\* (magnitude in thousandths, variance in ten-thousandths; the norm of a vector
\* of d components is at least sqrt(d * variance)).
ProviderRaises == [raises |-> TRUE, dimsOk |-> FALSE, finite |-> FALSE, magnitude |-> 0, variance |-> 0]

ProviderAnswers ==
    {ProviderRaises,
     [raises |-> FALSE, dimsOk |-> TRUE, finite |-> TRUE, magnitude |-> 2000, variance |-> 20]}

\* The vector a provider adapter (_generate_gemini_embedding, ...) returns for a
\* preprocessed text: a black-box function of the text and the model; `of` and
\* `model` identify the input it was computed from.
Embed(processed_text, model, shape) ==
    [of |-> processed_text, model |-> model,
     dims |-> IF shape.dimsOk THEN ModelDimensions(model) ELSE ModelDimensions(model) + 1,
     finite |-> shape.finite, magnitude |-> shape.magnitude, variance |-> shape.variance]

\* EmbeddingQualityValidator._get_expected_dimensions
GetExpectedDimensions(model) ==
    CASE model = "gemini" -> 1536
      [] model = "openai" -> 3072
      [] model = "sentence_transformer" -> 384
      [] model = "huggingface" -> 768
      [] OTHER -> 768

\* validate_embedding with the magnitude bounds included in the range
ValidateEmbeddingClosedRange(embedding, original_text, model) ==
    LET dimension == IF embedding.dims = GetExpectedDimensions(model) THEN 30 ELSE 0
        finite == IF embedding.finite THEN 20 ELSE 0
        magnitude == IF 100 <= embedding.magnitude /\ embedding.magnitude <= 10000 THEN 20 ELSE 0
        variance == IF embedding.variance > 10 THEN 15 ELSE 0
        length == IF Len(original_text) > 10 THEN 15 ELSE 0
    IN Min(dimension + finite + magnitude + variance + length, 100)

\* EmbeddingQualityValidator.validate_embedding, in hundredths
ValidateEmbedding(embedding, original_text, model) ==
    LET dimension == IF embedding.dims = GetExpectedDimensions(model) THEN 30 ELSE 0
        finite == IF embedding.finite THEN 20 ELSE 0
        magnitude == IF 100 < embedding.magnitude /\ embedding.magnitude < 10000 THEN 20 ELSE 0
        variance == IF embedding.variance > 10 THEN 15 ELSE 0
        length == IF Len(original_text) > 10 THEN 15 ELSE 0
    IN Min(dimension + finite + magnitude + variance + length, 100)

(***************************************************************************)
(* EmbeddingResult and the two-tier cache                                  *)
(***************************************************************************)
\* EmbeddingResult(success=True, ...) as generate_embedding builds it
SuccessResult(embedding, model, quality_score, processing_time, context) ==
    [success |-> TRUE, embedding |-> Some(embedding), model_used |-> Some(model),
     dimensions |-> Some(embedding.dims), quality_score |-> Some(quality_score),
     processing_time |-> Some(processing_time), metadata |-> Some(context), error |-> None]

\* EmbeddingResult(success=False, error=..., processing_time=...)
FailureResult(error, processing_time) ==
    [success |-> FALSE, embedding |-> None, model_used |-> None, dimensions |-> None,
     quality_score |-> None, processing_time |-> processing_time, metadata |-> None,
     error |-> Some(error)]

\* EmbeddingGenerator._generate_cache_key: md5 of f"{text}:{model.value}"; the
\* digest is taken as injective, so the key is the digested string itself
GenerateCacheKey(text, model) == text \o ":" \o model

\* self.cache[cache_key] = result
MemoryPut(c, cache_key, result) ==
    [k \in DOMAIN c \cup {cache_key} |-> IF k = cache_key THEN result ELSE c[k]]

\* EmbeddingGenerator._get_cached_embedding. dbFails: find_one_document raises.
\* Yields the exception flag, the Optional result and the memory tier afterwards.
GetCachedEmbedding(c, db, text, model, dbFails) ==
    LET cache_key == GenerateCacheKey(text, model)
        matches == {n \in DOMAIN db : db[n].cache_key = cache_key}
    IN IF cache_key \in DOMAIN c
       THEN [exc |-> FALSE, result |-> Some(c[cache_key]), cache |-> c]
       ELSE IF dbFails
       THEN [exc |-> TRUE, result |-> None, cache |-> c]
       ELSE IF matches # {}
       THEN LET cached_doc == db[CHOOSE n \in matches : \A m \in matches : n <= m]
                result == [success |-> TRUE, embedding |-> Some(cached_doc.embedding),
                           model_used |-> Some(model),
                           dimensions |-> Some(cached_doc.embedding.dims),
                           quality_score |-> cached_doc.quality_score,
                           processing_time |-> Some(0),
                           metadata |-> cached_doc.metadata, error |-> None]
            IN [exc |-> FALSE, result |-> Some(result),
                cache |-> MemoryPut(c, cache_key, result)]
       ELSE [exc |-> FALSE, result |-> None, cache |-> c]

\* a variant that writes the durable tier only
CacheEmbeddingDbOnly(c, db, text, model, result, dbFails) ==
    [cache |-> c,
     cacheDb |-> IF dbFails THEN db
                 ELSE Append(db, [cache_key |-> GenerateCacheKey(text, model), text |-> text,
                                  model |-> model, embedding |-> result.embedding[1],
                                  quality_score |-> result.quality_score,
                                  metadata |-> result.metadata])]

\* EmbeddingGenerator._cache_embedding. dbFails: insert_document raises (logged,
\* swallowed). Yields both tiers afterwards.
CacheEmbedding(c, db, text, model, result, dbFails) ==
    LET cache_key == GenerateCacheKey(text, model)
        cache_doc == [cache_key |-> cache_key, text |-> text, model |-> model,
                      embedding |-> result.embedding[1],
                      quality_score |-> result.quality_score,
                      metadata |-> result.metadata]
    IN [cache |-> MemoryPut(c, cache_key, result),
        cacheDb |-> IF dbFails THEN db ELSE Append(db, cache_doc)]

(***************************************************************************)
(* EmbeddingGenerator.generate_embedding                                   *)
(*                                                                         *)
(* The environment of one call: env.lookupFails (find_one_document         *)
(* raises), env.provider (a member of ProviderAnswers),                    *)
(* env.insertFails (insert_document raises), env.dt (time.time() -         *)
(* start_time when the result is built).                                   *)
(***************************************************************************)
\* time.time() - start_time of one call, in ticks
Durations == {0, 1}

Envs ==
    [lookupFails : BOOLEAN, provider : ProviderAnswers,
     insertFails : BOOLEAN, dt : Durations]

\* generate_embedding, lines 154-158: the cache check. An outcome of the try
\* body: exc (an exception left it), returned (the body returned `result`).
GenerateLookup(c, db, text, model, use_cache, env) ==
    IF ~use_cache
    THEN [exc |-> FALSE, error |-> "", returned |-> FALSE, result |-> None,
          cache |-> c, lookup_raised |-> FALSE]
    ELSE LET got == GetCachedEmbedding(c, db, text, model, env.lookupFails)
         IN [exc |-> got.exc,
             error |-> IF got.exc THEN "embedding_cache lookup failed" ELSE "",
             returned |-> ~got.exc /\ got.result # None,
             result |-> got.result, cache |-> got.cache, lookup_raised |-> got.exc]

\* generate_embedding, lines 160-199: preprocessing, provider dispatch, quality
\* validation, result, cache write
GenerateMiss(c, db, text, model, context, use_cache, env) ==
    LET processed_text == PreprocessText(text, context)
        unchanged == [cache |-> c, cacheDb |-> db, result |-> None, insert_raised |-> FALSE]
    IN IF model \notin SupportedModels
       THEN [exc |-> TRUE, error |-> "Unsupported model: " \o model,
             provider_called |-> FALSE] @@ unchanged
       ELSE IF env.provider.raises
       THEN [exc |-> TRUE, error |-> "API Error", provider_called |-> TRUE] @@ unchanged
       ELSE LET embedding == Embed(processed_text, model, env.provider)
                quality_score == ValidateEmbedding(embedding, text, model)
                result == SuccessResult(embedding, model, quality_score, env.dt, context)
                cached == IF use_cache
                          THEN CacheEmbedding(c, db, text, model, result, env.insertFails)
                          ELSE [cache |-> c, cacheDb |-> db]
            IN [exc |-> FALSE, error |-> "", provider_called |-> TRUE,
                result |-> Some(result), cache |-> cached.cache, cacheDb |-> cached.cacheDb,
                insert_raised |-> use_cache /\ env.insertFails]

\* a variant whose handler catches provider errors only
ExceptHandlerProviderOnly(exc, error, result, dt) ==
    IF exc /\ error = "API Error"
    THEN [raised |-> FALSE, result |-> FailureResult(error, Some(dt))]
    ELSE IF exc
    THEN [raised |-> TRUE, result |-> FailureResult(error, None)]
    ELSE [raised |-> FALSE, result |-> result[1]]

\* generate_embedding, lines 153 and 201-207: `try: ... except Exception as e:`
\* turns every exception of the body into a failed EmbeddingResult
ExceptHandler(exc, error, result, dt) ==
    IF exc
    THEN [raised |-> FALSE, result |-> FailureResult(error, Some(dt))]
    ELSE [raised |-> FALSE, result |-> result[1]]

\* generate_embedding as a whole, as one coroutine running alone
GenerateEmbedding(c, db, text, model, context, use_cache, env) ==
    LET looked == GenerateLookup(c, db, text, model, use_cache, env)
        missed == GenerateMiss(looked.cache, db, text, model, context, use_cache, env)
        stopped == looked.exc \/ looked.returned
        out == IF stopped
               THEN ExceptHandler(looked.exc, looked.error, looked.result, env.dt)
               ELSE ExceptHandler(missed.exc, missed.error, missed.result, env.dt)
    IN [raised |-> out.raised, result |-> out.result,
        cache |-> IF stopped THEN looked.cache ELSE missed.cache,
        cacheDb |-> IF stopped THEN db ELSE missed.cacheDb,
        provider_called |-> ~stopped /\ missed.provider_called,
        lookup_raised |-> looked.lookup_raised,
        insert_raised |-> ~stopped /\ missed.insert_raised,
        provider_works |-> ~env.provider.raises]

(***************************************************************************)
(* EmbeddingGenerator.generate_batch_embeddings and _process_batch         *)
(***************************************************************************)
\* self.embedding_config['batch_size'] (config.py, EMBEDDING_BATCH_SIZE)
DefaultBatchSize == 100

\* the arguments generate_batch_embeddings is called with: batch_size 0 stands
\* for None, context is None or a list with one context per text
BatchSizes == {0, 1, 2}
\* context lists for n texts: one context for the odd positions, one for the even
ContextLists(n) == {[j \in 1..n |-> IF j % 2 = 1 THEN c ELSE d] : c, d \in Contexts}
WorkerCounts == {1, 2}
BatchModels == {"gemini", "local"}

IdleBatch ==
    [pc |-> "idle", texts |-> <<>>, model |-> "gemini", batch_size |-> 0,
     context |-> None, use_cache |-> FALSE, max_workers |-> 1, i |-> 0]

NoFutures == [fut |-> <<>>, asCompleted |-> FALSE, order |-> <<>>]

EmptyAcc ==
    [embeddings |-> <<>>, failed_indices |-> <<>>, quality_scores |-> <<>>,
     errors |-> <<>>, actual |-> <<>>]

NoBatchResult == [returned |-> FALSE, texts |-> <<>>, r |-> <<>>, actual |-> <<>>]

NotLooked ==
    [exc |-> FALSE, error |-> "", returned |-> FALSE, result |-> None, lookup_raised |-> FALSE]

\* batch_texts = texts[i:i + batch_size]
ChunkLen(b) == Min(b.i + b.batch_size, Len(b.texts)) - b.i

\* _process_batch, lines 561-567: one future per text of the chunk, submitted in order
SubmitChunk(b) ==
    [fut |-> [j \in 1..ChunkLen(b) |->
                 [st |-> "queued", looked |-> NotLooked, result |-> None]],
     asCompleted |-> FALSE, order |-> <<>>]

\* text_context = context[i] if context else None, on batch_context = context[i:i+batch_size]
TextContext(b, j) == IF b.context = None THEN NoContext ELSE b.context[1][b.i + j]

\* _process_batch, lines 570-578: what the collecting loop appends for a future
FutureResult(out) ==
    IF out.raised THEN FailureResult(out.result.error[1], None) ELSE out.result

RECURSIVE CollectResultsNoPlaceholder(_, _, _)
\* a variant that appends nothing to embeddings and quality_scores for a failed item
CollectResultsNoPlaceholder(a, index, batch_results) ==
    IF batch_results = <<>> THEN a
    ELSE LET result == Head(batch_results)
             next == IF result.success
                     THEN [a EXCEPT !.embeddings = Append(@, result.embedding),
                                    !.quality_scores = Append(@, result.quality_score[1])]
                     ELSE [a EXCEPT !.failed_indices = Append(@, index),
                                    !.errors = Append(@, result.error[1])]
         IN CollectResultsNoPlaceholder(next, index + 1, Tail(batch_results))

RECURSIVE CollectResults(_, _, _)
\* generate_batch_embeddings, lines 259-267, over enumerate(batch_results) from position j
\* (index = i + j, 0-based)
CollectResults(a, index, batch_results) ==
    IF batch_results = <<>> THEN a
    ELSE LET result == Head(batch_results)
             next == IF result.success
                     THEN [a EXCEPT !.embeddings = Append(@, result.embedding),
                                    !.quality_scores = Append(@, result.quality_score[1])]
                     ELSE [a EXCEPT !.failed_indices = Append(@, index),
                                    !.errors = Append(@, result.error[1]),
                                    !.embeddings = Append(@, None),
                                    !.quality_scores = Append(@, 0)]
         IN CollectResults(next, index + 1, Tail(batch_results))

\* a variant that reports success only when no item failed
BatchSuccessAll(embeddings) ==
    \A k \in DOMAIN embeddings : embeddings[k] # None

\* generate_batch_embeddings, lines 270 and 274: success=len(successful_embeddings) > 0
BatchSuccess(embeddings) ==
    Cardinality({k \in DOMAIN embeddings : embeddings[k] # None}) > 0

\* generate_batch_embeddings, lines 270-288: the BatchEmbeddingResult returned
BuildBatchResult(a, texts) ==
    [success |-> BatchSuccess(a.embeddings),
     embeddings |-> Some(a.embeddings),
     failed_indices |-> Some(a.failed_indices),
     total_processed |-> Len(texts),
     quality_scores |-> Some(a.quality_scores),
     metadata |-> Some([successful_count |->
                            Cardinality({k \in DOMAIN a.embeddings : a.embeddings[k] # None}),
                        failed_count |-> Len(a.failed_indices)]),
     errors |-> Some(a.errors)]

\* generate_batch_embeddings, lines 236-240: the result for `not texts`
NoTextsResult ==
    [success |-> FALSE, embeddings |-> None, failed_indices |-> None, total_processed |-> 0,
     quality_scores |-> None, metadata |-> None, errors |-> Some(<<"No texts provided">>)]

(***************************************************************************)
(* Actions of the generator                                                *)
(***************************************************************************)
InitGenState ==
    /\ cache = <<>>
    /\ cacheDb = <<>>
    /\ calls = [n |-> 0, log |-> <<>>]
    /\ batch = IdleBatch
    /\ workers = NoFutures
    /\ acc = EmptyAcc
    /\ batchResult = NoBatchResult

\* one generate_embedding call, awaited to its end by a caller that makes no
\* other call meanwhile. calls.log keeps the two most recent calls.
Generate ==
    /\ batch.pc = "idle"
    /\ calls.n < MaxCalls
    /\ \E text \in Texts, model \in CallModels, context \in Contexts,
          use_cache \in BOOLEAN, env \in Envs :
          \E g \in {GenerateEmbedding(cache, cacheDb, text, model, context, use_cache, env)} :
          LET call == [text |-> text, model |-> model, context |-> context,
                       use_cache |-> use_cache, raised |-> g.raised, result |-> g.result,
                       provider_called |-> g.provider_called,
                       lookup_raised |-> g.lookup_raised, insert_raised |-> g.insert_raised,
                       provider_works |-> g.provider_works]
          IN /\ env.lookupFails => g.lookup_raised
             /\ env.insertFails => g.insert_raised
             /\ cache' = g.cache
             /\ cacheDb' = g.cacheDb
             /\ calls' = [n |-> calls.n + 1,
                          log |-> IF calls.log = <<>> THEN <<call>>
                                  ELSE <<calls.log[Len(calls.log)], call>>]
    /\ UNCHANGED <<batch, workers, acc, batchResult>>

\* generate_batch_embeddings is called: lines 233-256 up to the submission of the
\* first chunk's futures, or the whole call when texts is empty
BatchStart ==
    /\ batch.pc = "idle"
    /\ \E n \in 0..MaxTexts :
       \E texts \in [1..n -> Texts], model \in BatchModels, size \in BatchSizes,
          use_cache \in BOOLEAN, max_workers \in WorkerCounts :
       \E context \in {None} \cup {Some(c) : c \in ContextLists(n)} :
          LET b == [pc |-> "chunk", texts |-> texts, model |-> model,
                    batch_size |-> IF size = 0 THEN DefaultBatchSize ELSE size,
                    context |-> context, use_cache |-> use_cache,
                    max_workers |-> max_workers, i |-> 0]
          IN IF texts = <<>>
             THEN /\ batch' = [b EXCEPT !.pc = "done"]
                  /\ batchResult' = [returned |-> TRUE, texts |-> texts,
                                     r |-> Some(NoTextsResult), actual |-> <<>>]
                  /\ UNCHANGED workers
             ELSE /\ batch' = b
                  /\ workers' = SubmitChunk(b)
                  /\ UNCHANGED batchResult
    /\ acc' = EmptyAcc
    /\ UNCHANGED <<cache, cacheDb, calls>>

Running == {j \in DOMAIN workers.fut : workers.fut[j].st = "running"}

\* a pool that starts a thread for every submitted call
PoolAlwaysReady == TRUE

\* ThreadPoolExecutor(max_workers=max_workers): a queued call is taken up only
\* by one of the max_workers threads that is not running a call
PoolHasIdleThread == Cardinality(Running) < batch.max_workers

\* a pool thread takes the oldest queued future and runs generate_embedding up to
\* the end of its cache check
WorkerStart(j) ==
    /\ batch.pc = "chunk"
    /\ j \in DOMAIN workers.fut
    /\ workers.fut[j].st = "queued"
    /\ \A k \in 1..(j - 1) : workers.fut[k].st # "queued"
    /\ PoolHasIdleThread
    /\ \E lookupFails \in BOOLEAN :
          LET env == [lookupFails |-> lookupFails, provider |-> ProviderRaises,
                      insertFails |-> FALSE, dt |-> 0]
              looked == GenerateLookup(cache, cacheDb, batch.texts[batch.i + j],
                                       batch.model, batch.use_cache, env)
          IN /\ cache' = looked.cache
             /\ workers' = [workers EXCEPT !.fut[j] =
                    [st |-> "running",
                     looked |-> [exc |-> looked.exc, error |-> looked.error,
                                 returned |-> looked.returned, result |-> looked.result,
                                 lookup_raised |-> looked.lookup_raised],
                     result |-> None]]
    /\ UNCHANGED <<cacheDb, calls, batch, acc, batchResult>>

\* the thread finishes its generate_embedding call; the future completes
WorkerFinish(j) ==
    /\ batch.pc = "chunk"
    /\ j \in DOMAIN workers.fut
    /\ workers.fut[j].st = "running"
    /\ \E provider \in ProviderAnswers, insertFails \in BOOLEAN, dt \in Durations :
          LET env == [lookupFails |-> FALSE, provider |-> provider,
                      insertFails |-> insertFails, dt |-> dt]
              looked == workers.fut[j].looked
              stopped == looked.exc \/ looked.returned
              missed == GenerateMiss(cache, cacheDb, batch.texts[batch.i + j], batch.model,
                                     TextContext(batch, j), batch.use_cache, env)
              out == IF stopped
                     THEN ExceptHandler(looked.exc, looked.error, looked.result, dt)
                     ELSE ExceptHandler(missed.exc, missed.error, missed.result, dt)
          IN /\ cache' = IF stopped THEN cache ELSE missed.cache
             /\ cacheDb' = IF stopped THEN cacheDb ELSE missed.cacheDb
             /\ workers' = [workers EXCEPT
                    !.fut[j] = [@ EXCEPT !.st = "done", !.result = Some(FutureResult(out))],
                    !.order = IF workers.asCompleted THEN Append(@, j) ELSE @]
    /\ UNCHANGED <<calls, batch, acc, batchResult>>

\* _process_batch, line 570: as_completed(futures) is called. It yields the
\* futures already finished first, in the iteration order of a set, then the
\* others in the order they complete.
AsCompletedCall ==
    /\ batch.pc = "chunk"
    /\ ~workers.asCompleted
    /\ \E first \in Perms({j \in DOMAIN workers.fut : workers.fut[j].st = "done"}) :
          workers' = [workers EXCEPT !.asCompleted = TRUE, !.order = first]
    /\ UNCHANGED <<cache, cacheDb, calls, batch, acc, batchResult>>

\* every future of the chunk was yielded: _process_batch returns, the results
\* are collected (lines 259-267), and the loop goes on to the next chunk or the
\* call returns its BatchEmbeddingResult (lines 270-288)
ChunkCollect ==
    /\ batch.pc = "chunk"
    /\ workers.asCompleted
    /\ Len(workers.order) = Len(workers.fut)
    /\ LET batch_results == [k \in DOMAIN workers.order |-> workers.fut[workers.order[k]].result[1]]
           collected == CollectResults(acc, batch.i, batch_results)
           a == [collected EXCEPT !.actual =
                    @ \o [k \in DOMAIN workers.fut |-> workers.fut[k].result[1]]]
           b == [batch EXCEPT !.i = @ + batch.batch_size]
       IN /\ acc' = a
          /\ IF b.i < Len(b.texts)
             THEN /\ batch' = b
                  /\ workers' = SubmitChunk(b)
                  /\ UNCHANGED batchResult
             ELSE /\ batch' = [b EXCEPT !.pc = "done"]
                  /\ workers' = NoFutures
                  /\ batchResult' = [returned |-> TRUE, texts |-> batch.texts,
                                     r |-> Some(BuildBatchResult(a, batch.texts)),
                                     actual |-> a.actual]
    /\ UNCHANGED <<cache, cacheDb, calls>>

(***************************************************************************)
(* VectorMigrator: configuration, progress, checkpoint file                *)
(***************************************************************************)
MaxRecords == 3     \* documents in the "analytics" collection
MaxRuns == 2        \* migrate_all_data calls per migrator
MaxControls == 2    \* pause_migration / resume_migration calls per migrator
MaxRestarts == 1    \* times the process is started anew with the files left on disk

\* MigrationConfig.batch_size default
DefaultMigrationBatchSize == 100

\* config.embedding_model: the Enum member EmbeddingModel.GEMINI, or the plain
\* string "gemini" a caller can pass instead
EnumGemini == [enum |-> TRUE, value |-> "gemini"]
PlainGemini == [enum |-> FALSE, value |-> "gemini"]

\* config.source_types: lists of DataSource members (by value)
SourceLists ==
    {<<>>, <<"analytics">>, <<"analytics", "sessions">>, <<"campaigns", "transactions">>}

\* the MigrationConfig values a migrator is constructed with
Configs ==
    [source_types : SourceLists, batch_size : {2, DefaultMigrationBatchSize},
     embedding_model : {EnumGemini, PlainGemini}, resume_from_checkpoint : BOOLEAN]

\* MigrationConfig()
DefaultConfig ==
    [source_types |-> <<>>, batch_size |-> DefaultMigrationBatchSize,
     embedding_model |-> EnumGemini, resume_from_checkpoint |-> TRUE]

\* MigrationProgress()
NewProgress ==
    [total_records |-> 0, processed_records |-> 0, successful_records |-> 0,
     failed_records |-> 0, skipped_records |-> 0, current_source |-> None, errors |-> <<>>]

\* json.dump on config.__dict__ raises TypeError for an Enum member (a
\* source type or the embedding model): only a config without any is written out
JsonSerializable(cfg) == cfg.source_types = <<>> /\ ~cfg.embedding_model.enum

NoFile == [state |-> "absent", progress |-> NewProgress]

\* the 'progress' object of the checkpoint document
CheckpointProgress(p) ==
    [NewProgress EXCEPT !.total_records = p.total_records,
                        !.processed_records = p.processed_records,
                        !.successful_records = p.successful_records,
                        !.failed_records = p.failed_records,
                        !.current_source = p.current_source]

\* VectorMigrator._save_checkpoint: open(..., 'w') truncates the file, json.dump
\* streams the document into it; when it raises on the config the file is left
\* holding the beginning of the document (the error is logged)
SaveCheckpoint(p, cfg, file) ==
    IF JsonSerializable(cfg)
    THEN [state |-> "valid", progress |-> CheckpointProgress(p)]
    ELSE [state |-> "partial", progress |-> NewProgress]

\* VectorMigrator._load_checkpoint: a missing file and a file json.load cannot
\* parse leave the progress as it is
LoadCheckpoint(p, file) ==
    IF file.state = "valid"
    THEN [p EXCEPT !.total_records = file.progress.total_records,
                   !.processed_records = file.progress.processed_records,
                   !.successful_records = file.progress.successful_records,
                   !.failed_records = file.progress.failed_records,
                   !.current_source = file.progress.current_source]
    ELSE p

(***************************************************************************)
(* The document store                                                      *)
(***************************************************************************)
Collections == {"analytics", "sessions", "campaigns", "transactions"}

\* the sources migrate_all_data has a migrate_*_data method for
MigratedSources == {"analytics", "sessions", "transactions"}

\* VectorMigrator._count_source_records: count_documents on the source's
\* collection, with the createdAt filter when start_date or end_date is given;
\* 0 for a source without a collection. store.stale[c] documents of collection c
\* lie outside the date range.
CountSourceRecords(st, source, dateFilter) ==
    IF source \in Collections
    THEN IF dateFilter THEN st.n[source] - st.stale[source] ELSE st.n[source]
    ELSE 0

\* the sources whose count awaits the store (the others return 0 at once)
CountAwaits(source) == source \in Collections

\* find_documents(collection, filter_dict) in migrate_*_data: the filter holds
\* the site ids only, so every document of the collection is returned
FindDocuments(st, source) == st.n[source]

(***************************************************************************)
(* migrate_all_data as a coroutine: its state between two awaits           *)
(***************************************************************************)
IdleRun ==
    [pc |-> "idle", dateFilter |-> FALSE, k |-> 0, total |-> 0, n |-> 0, i |-> 0,
     successful_migrations |-> 0]

NoBatch == [size |-> 0, ok |-> 0, failed |-> 0, processed |-> 0, successful |-> 0, failed_records |-> 0]

NoResult == [returned |-> FALSE, success |-> FALSE, error |-> None, stopped_by_pause |-> FALSE, sources_done |-> 0]

\* the batches of the source being migrated, or migrated last: the length of
\* the fetched list, the slices data[first:first + size] processed so far, and
\* whether the batch loop has ended
NoSource == [n |-> 0, batches |-> <<>>, done |-> FALSE]

\* paused_in_batch: pause_migration was called while a batch was in flight and
\*   should_pause has stayed set since; batches_since_pause: the batches that
\*   have returned since that call (counted up to 2);
\* processed: the sources whose batch loop ran to its end in the runs since the
\*   last run that was not stopped by a pause;
\* store_raised: a store call of this run raised
NewHist ==
    [runs |-> 0, controls |-> 0, restarts |-> 0, last_batch |-> NoBatch,
     result |-> NoResult, paused_in_batch |-> FALSE, batches_since_pause |-> 0,
     processed |-> {}, source |-> NoSource, store_raised |-> FALSE]

\* what is left to resume once the run has returned: nothing, unless a pause
\* stopped it
ProcessedAfter(processed, m) ==
    IF m.result.returned /\ ~m.result.stopped_by_pause THEN {} ELSE processed

\* the part of the migrator the coroutine reads and writes
Machine == [progress |-> progress, flags |-> flags, ckptFile |-> ckptFile, run |-> run,
            result |-> hist.result]

\* VectorMigrator._finalize_migration, the `return MigrationResult(success=True, ...)`
\* of lines 164-172 and the `finally` of line 183
FinalizeAndReturn(m, paused, done) ==
    [m EXCEPT !.ckptFile = NoFile,
              !.flags.is_running = FALSE,
              !.run = IdleRun,
              !.result = [returned |-> TRUE, success |-> TRUE, error |-> None,
                          stopped_by_pause |-> paused, sources_done |-> done]]

\* the `except Exception` of lines 174-181 without the `finally`
FailAndReturnNoFinally(m, error, done) ==
    [m EXCEPT !.run = IdleRun,
              !.result = [returned |-> TRUE, success |-> FALSE, error |-> Some(error),
                          stopped_by_pause |-> FALSE, sources_done |-> done]]

\* the `except Exception` of lines 174-181 and the `finally` of line 183
FailAndReturn(m, error, done) ==
    [m EXCEPT !.flags.is_running = FALSE,
              !.run = IdleRun,
              !.result = [returned |-> TRUE, success |-> FALSE, error |-> Some(error),
                          stopped_by_pause |-> FALSE, sources_done |-> done]]

RECURSIVE EnterLoop(_, _, _)
\* migrate_all_data, lines 151-172, from the head of the loop for the k-th
\* source type up to the next await on the store: the pause check, the
\* assignment of current_source, _migrate_data_source (which awaits
\* find_documents for a migrated source and does nothing for any other), and,
\* past the last source or after the break, finalisation and return
EnterLoop(m, cfg, k) ==
    IF k > Len(cfg.source_types)
    THEN FinalizeAndReturn(m, FALSE, k - 1)
    ELSE IF m.flags.should_pause
    THEN FinalizeAndReturn([m EXCEPT !.ckptFile = SaveCheckpoint(m.progress, cfg, m.ckptFile)],
                           TRUE, k - 1)
    ELSE LET source == cfg.source_types[k]
             entered == [m EXCEPT !.progress.current_source = Some(source)]
         IN IF source \in MigratedSources
            THEN [entered EXCEPT !.run.pc = "fetch", !.run.k = k]
            ELSE EnterLoop(entered, cfg, k + 1)

RECURSIVE CountFrom(_, _, _, _)
\* VectorMigrator._calculate_total_records from the k-th source type with the
\* running sum `total`, up to the next await on the store; after the last
\* source, progress.total_records is assigned and the loop of migrate_all_data begins
CountFrom(m, cfg, k, total) ==
    IF k > Len(cfg.source_types)
    THEN EnterLoop([m EXCEPT !.progress.total_records = total], cfg, 1)
    ELSE IF CountAwaits(cfg.source_types[k])
    THEN [m EXCEPT !.run.pc = "count", !.run.k = k, !.run.total = total]
    ELSE CountFrom(m, cfg, k + 1, total)

\* a slice that is not cut at the end of the list
BatchLenWhole(r, cfg) == cfg.batch_size

\* batch = data[i:i + batch_size]
BatchLen(r, cfg) == Min(r.i + cfg.batch_size, r.n) - r.i

\* migrate_*_data, lines 233-235: the progress update after a batch;
\* successful_migrations is the source's running total including this batch
UpdateProgress(p, batch_len, successful_migrations, batch_ok) ==
    [p EXCEPT !.processed_records = @ + batch_len,
              !.successful_records = @ + successful_migrations]

(***************************************************************************)
(* Actions of the migrator                                                 *)
(***************************************************************************)
\* the stores a behaviour starts from: a documents in "analytics" (none, or
\* enough for a full batch, with and without a remainder), one in each other
\* collection; one document of every non-empty collection was created outside
\* the date range a run may be given
InitStores ==
    {[n |-> [c \in Collections |-> IF c = "analytics" THEN a ELSE 1],
      stale |-> [c \in Collections |-> IF c = "analytics" /\ a = 0 THEN 0 ELSE 1],
      vectordocuments |-> 0] : a \in {0, MaxRecords - 1, MaxRecords}}

\* VectorMigrator.__init__
NewFlags == [is_running |-> FALSE, should_pause |-> FALSE]

IdleStore ==
    [n |-> [c \in Collections |-> 0], stale |-> [c \in Collections |-> 0],
     vectordocuments |-> 0]

InitMigState ==
    /\ config = DefaultConfig
    /\ progress = NewProgress
    /\ flags = NewFlags
    /\ ckptFile = NoFile
    /\ store = IdleStore
    /\ run = IdleRun
    /\ hist = NewHist

InitRtState == rt = [pc |-> "off", saved |-> NewProgress]

\* no calculate_similarity or validate_embedding call is made
NoCall == [pc |-> "off"]

\* source records as far as a vector document depends on them: the source
\* type and the record's _id
SourceRecords == [source_type : {"analytics", "sessions"}, id : {"a", "b"}]

\* VectorMigrator._create_vector_document: the documentId
CreateVectorDocument(original_record, source_type) ==
    [documentId |-> source_type \o "_" \o original_record.id,
     sourceType |-> source_type, sourceId |-> original_record.id]

DocumentIds == {CreateVectorDocument(r, r.source_type).documentId : r \in SourceRecords}

\* an empty "vectordocuments" collection, nothing migrated, no report
EmptyVectorStore ==
    [docs |-> [d \in DocumentIds |-> 0], migrated |-> [d \in DocumentIds |-> 0],
     report |-> None]

InitAuxState == fn = NoCall /\ vstore = EmptyVectorStore

InitMigrator ==
    /\ config \in Configs
    /\ progress = NewProgress
    /\ flags = NewFlags
    /\ ckptFile = NoFile
    /\ store \in InitStores
    /\ run = IdleRun
    /\ hist = NewHist

\* the coroutine's writes
Becomes(m) ==
    /\ progress' = m.progress
    /\ flags' = m.flags
    /\ ckptFile' = m.ckptFile
    /\ run' = m.run

\* migrate_all_data is called: lines 137-148 up to the first count_documents
\* await (or, with nothing to count and nothing to fetch, to its return)
StartRun ==
    /\ run.pc = "idle"
    /\ hist.runs < MaxRuns
    /\ \E dateFilter \in BOOLEAN :
          LET called == [Machine EXCEPT !.flags.is_running = TRUE,
                                        !.run.dateFilter = dateFilter,
                                        !.result = NoResult]
              loaded == IF config.resume_from_checkpoint
                        THEN [called EXCEPT !.progress = LoadCheckpoint(@, ckptFile)]
                        ELSE called
              m == CountFrom(loaded, config, 1, 0)
          IN /\ Becomes(m)
             /\ hist' = [hist EXCEPT !.runs = @ + 1, !.result = m.result,
                                     !.last_batch = NoBatch,
                                     !.paused_in_batch = FALSE,
                                     !.batches_since_pause = 0,
                                     !.processed = ProcessedAfter(@, m),
                                     !.source = NoSource,
                                     !.store_raised = FALSE]
    /\ UNCHANGED <<config, store>>

\* a count_documents call of _calculate_total_records returns or raises
CountDone ==
    /\ run.pc = "count"
    /\ \E raises \in BOOLEAN :
          LET count == CountSourceRecords(store, config.source_types[run.k], run.dateFilter)
              m == IF raises
                   THEN FailAndReturn(Machine, "count_documents failed", 0)
                   ELSE CountFrom(Machine, config, run.k + 1, run.total + count)
          IN /\ Becomes(m)
             /\ hist' = [hist EXCEPT !.result = m.result,
                                     !.processed = ProcessedAfter(@, m),
                                     !.store_raised = @ \/ raises]
    /\ UNCHANGED <<config, store>>

\* the find_documents call of migrate_*_data returns or raises (lines 211-226);
\* the exception is caught by migrate_*_data itself, whose failed
\* MigrationResult _migrate_data_source does not look at
FetchDone ==
    /\ run.pc = "fetch"
    /\ \E raises \in BOOLEAN :
          LET n == FindDocuments(store, config.source_types[run.k])
              m == IF raises \/ n = 0
                   THEN EnterLoop(Machine, config, run.k + 1)
                   ELSE [Machine EXCEPT !.run.pc = "batch", !.run.n = n, !.run.i = 0,
                                        !.run.successful_migrations = 0]
          IN /\ Becomes(m)
             /\ hist' = [hist EXCEPT !.result = m.result,
                                     !.processed = ProcessedAfter(@, m),
                                     !.source = IF raises \/ n = 0 THEN @
                                                ELSE [NoSource EXCEPT !.n = n],
                                     !.store_raised = @ \/ raises]
    /\ UNCHANGED <<config, store>>

\* how many records of a batch _process_*_batch can count as migrated (lines
\* 590-621): a record is not counted when its embedding fails or the insert of
\* its vector document raises, and generate_embedding fails for every text
\* when config.embedding_model is not an EmbeddingModel member
BatchOutcomes(cfg, batch_len) ==
    IF cfg.embedding_model.enum THEN 0..batch_len ELSE {0}

\* _process_*_batch returns for the batch data[i:i + batch_size]: progress is
\* updated (lines 231-237) and the next batch begins or the source is done.
\* Nothing the batch awaits reads or writes what pause_migration and
\* resume_migration touch, so the batch is one step.
BatchDone ==
    /\ run.pc = "batch"
    /\ \E batch_ok \in BatchOutcomes(config, BatchLen(run, config)) :
          LET batch_len == BatchLen(run, config)
              successful_migrations == run.successful_migrations + batch_ok
              p == UpdateProgress(progress, batch_len, successful_migrations, batch_ok)
              updated == [Machine EXCEPT !.progress = p,
                                         !.run.successful_migrations = successful_migrations,
                                         !.run.i = @ + config.batch_size]
              left == [updated EXCEPT !.run.n = 0, !.run.i = 0,
                                      !.run.successful_migrations = 0]
              m == IF updated.run.i < run.n THEN updated
                   ELSE EnterLoop(left, config, run.k + 1)
          IN /\ store' = [store EXCEPT !.vectordocuments = @ + batch_ok]
             /\ Becomes(m)
             /\ hist' = [hist EXCEPT
                    !.result = m.result,
                    !.batches_since_pause =
                        IF hist.paused_in_batch THEN Min(@ + 1, 2) ELSE @,
                    !.processed =
                        ProcessedAfter(IF updated.run.i < run.n THEN @
                                       ELSE @ \cup {config.source_types[run.k]}, m),
                    !.source = [@ EXCEPT
                        !.batches = Append(@, [first |-> run.i, size |-> batch_len]),
                        !.done = ~(updated.run.i < run.n)],
                    !.last_batch =
                        [size |-> batch_len, ok |-> batch_ok,
                         failed |-> batch_len - batch_ok,
                         processed |-> p.processed_records - progress.processed_records,
                         successful |-> p.successful_records - progress.successful_records,
                         failed_records |-> p.failed_records - progress.failed_records]]
    /\ UNCHANGED config

\* VectorMigrator.pause_migration, called by another task or between runs
PauseMigration ==
    /\ hist.controls < MaxControls
    /\ flags' = [flags EXCEPT !.should_pause = TRUE]
    /\ ckptFile' = SaveCheckpoint(progress, config, ckptFile)
    /\ hist' = [hist EXCEPT !.controls = @ + 1,
                            !.paused_in_batch = @ \/ run.pc = "batch",
                            !.batches_since_pause =
                                IF hist.paused_in_batch THEN @ ELSE 0]
    /\ UNCHANGED <<config, progress, store, run>>

\* VectorMigrator.resume_migration
ResumeMigration ==
    /\ hist.controls < MaxControls
    /\ flags' = [flags EXCEPT !.should_pause = FALSE]
    /\ progress' = LoadCheckpoint(progress, ckptFile)
    /\ hist' = [hist EXCEPT !.controls = @ + 1,
                            !.paused_in_batch = FALSE,
                            !.batches_since_pause = 0]
    /\ UNCHANGED <<config, ckptFile, store, run>>

\* the process ends and a new one constructs a VectorMigrator (create_migrator)
\* with the same config; the checkpoint file and the store are what was left.
\* Restarts are taken between two runs.
Restart ==
    /\ run.pc = "idle"
    /\ hist.restarts < MaxRestarts
    /\ 0 < hist.runs /\ hist.runs < MaxRuns
    /\ progress' = NewProgress
    /\ flags' = NewFlags
    /\ run' = IdleRun
    /\ hist' = [hist EXCEPT !.restarts = @ + 1, !.result = NoResult,
                            !.last_batch = NoBatch,
                            !.paused_in_batch = FALSE, !.batches_since_pause = 0,
                            !.processed = IF config.resume_from_checkpoint THEN @ ELSE {},
                            !.source = NoSource, !.store_raised = FALSE]
    /\ UNCHANGED <<config, ckptFile, store>>

NextMig ==
    /\ \/ StartRun
       \/ CountDone
       \/ FetchDone
       \/ BatchDone
       \/ PauseMigration
       \/ ResumeMigration
       \/ Restart
    /\ UNCHANGED <<genVars, rt, auxVars>>

InitMig == InitGenState /\ InitMigrator /\ InitRtState /\ InitAuxState

SpecMig == InitMig /\ [][NextMig]_vars

(***************************************************************************)
(* The checkpoint round trip of test_checkpoint_save_and_load              *)
(***************************************************************************)
\* the progress values the round trip is made with
RoundTripProgress ==
    {[NewProgress EXCEPT !.total_records = t, !.processed_records = p,
                         !.successful_records = s, !.failed_records = f,
                         !.current_source = c] :
        t \in {0, 100}, p \in {0, 50}, s \in {0, 45}, f \in {0, 5},
        c \in {None, Some("analytics")}}

InitCkpt ==
    /\ InitGenState
    /\ config \in Configs
    /\ progress \in RoundTripProgress
    /\ flags = NewFlags
    /\ ckptFile = NoFile
    /\ store = IdleStore
    /\ run = IdleRun
    /\ hist = NewHist
    /\ rt = [pc |-> "start", saved |-> NewProgress]
    /\ InitAuxState

\* await migrator._save_checkpoint()
RoundTripSave ==
    /\ rt.pc = "start"
    /\ ckptFile' = SaveCheckpoint(progress, config, ckptFile)
    /\ rt' = [pc |-> "saved", saved |-> progress]
    /\ UNCHANGED progress

\* migrator.progress = MigrationProgress()
RoundTripDiscard ==
    /\ rt.pc = "saved"
    /\ progress' = NewProgress
    /\ rt' = [rt EXCEPT !.pc = "discarded"]
    /\ UNCHANGED ckptFile

\* await migrator._load_checkpoint()
RoundTripLoad ==
    /\ rt.pc = "discarded"
    /\ progress' = LoadCheckpoint(progress, ckptFile)
    /\ rt' = [rt EXCEPT !.pc = "loaded"]
    /\ UNCHANGED ckptFile

NextCkpt ==
    /\ \/ RoundTripSave
       \/ RoundTripDiscard
       \/ RoundTripLoad
    /\ UNCHANGED <<genVars, config, flags, store, run, hist, auxVars>>

SpecCkpt == InitCkpt /\ [][NextCkpt]_vars

(***************************************************************************)
(* Specifications of the generator                                         *)
(***************************************************************************)
NextGen == Generate /\ UNCHANGED <<migVars, rt, auxVars>>

NextBatch ==
    /\ \/ BatchStart
       \/ \E j \in 1..MaxTexts : WorkerStart(j)
       \/ \E j \in 1..MaxTexts : WorkerFinish(j)
       \/ AsCompletedCall
       \/ ChunkCollect
    /\ UNCHANGED <<migVars, rt, auxVars>>

InitGen == InitGenState /\ InitMigState /\ InitRtState /\ InitAuxState

SpecGen == InitGen /\ [][NextGen]_vars

SpecBatch == InitGen /\ [][NextBatch]_vars

(***************************************************************************)
(* Claims about the generator                                              *)
(***************************************************************************)
\* what the BatchEmbeddingResult of the finished call holds
Returned == batchResult.r[1]

\* C1: a returned batch result is positionally aligned with the input: for every
\* index, embeddings[i] and quality_scores[i] are what texts[i] produced (its
\* vector, or null and 0.0 when it failed), and failed_indices is exactly the set
\* of indices whose generation failed.
C1_BatchAligned ==
    (batchResult.returned /\ batchResult.texts # <<>>) =>
        /\ \A k \in DOMAIN batchResult.texts :
              /\ Returned.embeddings[1][k] = batchResult.actual[k].embedding
              /\ Returned.quality_scores[1][k] =
                    IF batchResult.actual[k].success
                    THEN batchResult.actual[k].quality_score[1] ELSE 0
        /\ Range(Returned.failed_indices[1]) =
              {k - 1 : k \in {m \in DOMAIN batchResult.texts : ~batchResult.actual[m].success}}

\* the two most recent generate calls were made with use_cache=true for the
\* same (text, model), and the earlier one succeeded
SameKeyTwice ==
    /\ Len(calls.log) = 2
    /\ calls.log[1].text = calls.log[2].text
    /\ calls.log[1].model = calls.log[2].model
    /\ calls.log[1].use_cache /\ calls.log[2].use_cache
    /\ ~calls.log[1].raised /\ calls.log[1].result.success

\* C2: cache idempotence: of two consecutive use_cache=true generate calls for
\* the same (text, model) whose first succeeded, the second returns the first's
\* vector without a provider call, with processing_time <= the first's.
C2_CacheIdempotence ==
    SameKeyTwice =>
        /\ ~calls.log[2].raised
        /\ calls.log[2].result.success
        /\ calls.log[2].result.embedding = calls.log[1].result.embedding
        /\ ~calls.log[2].provider_called
        /\ calls.log[2].result.processing_time[1] <= calls.log[1].result.processing_time[1]

\* the second of two same-key calls follows a first one that took time at the
\* provider, was made with another context, and whose durable insert failed
C2_Witness ==
    /\ SameKeyTwice
    /\ calls.log[1].provider_called
    /\ calls.log[1].insert_raised
    /\ calls.log[1].result.processing_time[1] > 0
    /\ calls.log[1].context # calls.log[2].context

\* the try body of the call did not produce an embedding: the provider raised,
\* or the model is not one generate_embedding dispatches on
BodyFailed(call) ==
    \/ call.provider_called /\ ~call.provider_works
    \/ call.model \notin SupportedModels

\* C3: generate never raises: no exception reaches the caller, and when the
\* provider call raises (or the model is unsupported) the call returns a result
\* with success=false, no vector, an error message and a processing_time.
C3_GenerateNeverRaises ==
    \A k \in DOMAIN calls.log :
        /\ ~calls.log[k].raised
        /\ BodyFailed(calls.log[k]) =>
              /\ ~calls.log[k].result.success
              /\ calls.log[k].result.embedding = None
              /\ calls.log[k].result.error # None
              /\ calls.log[k].result.processing_time # None

\* one call met a raising provider, the next an unsupported model
C3_Witness ==
    /\ Len(calls.log) = 2
    /\ calls.log[1].provider_called /\ ~calls.log[1].provider_works
    /\ calls.log[2].model \notin SupportedModels
    /\ \A k \in 1..2 : ~calls.log[k].raised /\ ~calls.log[k].result.success

\* C4: a cache error never affects the embedding result: a use_cache=true call
\* during which the durable store's lookup or insert raised, while the provider
\* works, returns success=true with the provider's vector for the text.
C4_CacheErrorHarmless ==
    \A k \in DOMAIN calls.log :
        LET call == calls.log[k]
        IN (/\ call.use_cache
            /\ call.lookup_raised \/ call.insert_raised
            /\ call.provider_works
            /\ call.model \in SupportedModels) =>
               /\ ~call.raised
               /\ call.result.success
               /\ call.result.embedding # None
               /\ call.result.embedding[1].of = PreprocessText(call.text, call.context)
               /\ call.result.embedding[1].model = call.model

C6_BatchSuccessFlag ==
    /\ batch.pc = "done" => batchResult.returned
    /\ batchResult.returned =>
          (Returned.success <=> \E k \in DOMAIN batchResult.actual : batchResult.actual[k].success)

\* a two-chunk batch returned with success although one of its items failed
C6_Witness ==
    /\ batchResult.returned
    /\ Len(batchResult.texts) = 2
    /\ batch.batch_size = 1
    /\ Returned.success
    /\ \E k \in 1..2 : ~batchResult.actual[k].success

C10_CheckpointRoundTrip ==
    rt.pc = "loaded" =>
        /\ progress.total_records = rt.saved.total_records
        /\ progress.processed_records = rt.saved.processed_records
        /\ progress.successful_records = rt.saved.successful_records
        /\ progress.failed_records = rt.saved.failed_records
        /\ progress.current_source = rt.saved.current_source

C16_IsRunningCleared ==
    /\ flags.is_running <=> run.pc # "idle"
    /\ hist.result.returned => ~flags.is_running

\* a run failed with an exception and has returned
C16_Witness ==
    /\ hist.result.returned
    /\ ~hist.result.success
    /\ hist.result.error # None
    /\ hist.store_raised
    /\ ~flags.is_running

(***************************************************************************)
(* EmbeddingGenerator.calculate_similarity                                 *)
(***************************************************************************)
\* the methods calculate_similarity has a branch for
SimilarityMethods == {"cosine", "euclidean", "dot"}

\* the methods the calls are made with
CallMethods == SimilarityMethods \cup {"manhattan"}

\* embeddings of the calls: vectors of one common dimension
Components == {-1, 0, 1}
Vectors == {<<x, y>> : x \in Components, y \in Components}

RECURSIVE ISqrtBetween(_, _, _)
\* the largest r in lo..hi with r * r <= n (lo * lo <= n assumed), by bisection
ISqrtBetween(n, lo, hi) ==
    IF lo = hi THEN lo
    ELSE LET mid == (lo + hi + 1) \div 2
         IN IF mid * mid <= n THEN ISqrtBetween(n, mid, hi)
            ELSE ISqrtBetween(n, lo, mid - 1)

\* floor of the square root of n, for 0 <= n < 2^30
ISqrt(n) == ISqrtBetween(n, 0, 32767)

RECURSIVE DotFrom(_, _, _)
DotFrom(a, b, i) == IF i > Len(a) THEN 0 ELSE a[i] * b[i] + DotFrom(a, b, i + 1)

\* np.dot(a, b)
Dot(a, b) == DotFrom(a, b, 1)

\* a - b
Minus(a, b) == [i \in DOMAIN a |-> a[i] - b[i]]

\* sklearn's cosine_similarity([a], [b])[0][0], in thousandths (rounded
\* towards zero): both rows are normalised, a zero row staying zero
CosineSimilarity(a, b) ==
    LET d == Dot(a, b)
        nn == Dot(a, a) * Dot(b, b)
    IN IF nn = 0 THEN 0
       ELSE IF d >= 0 THEN ISqrt((1000000 * d * d) \div nn)
       ELSE 0 - ISqrt((1000000 * d * d) \div nn)

\* 1 / (1 + np.linalg.norm(a - b)), in thousandths (rounded down, the norm
\* rounded down to thousandths)
EuclideanSimilarity(a, b) ==
    1000000 \div (1000 + ISqrt(1000000 * Dot(Minus(a, b), Minus(a, b))))

\* EmbeddingGenerator.calculate_similarity: what the call gives back to its
\* caller. The ValueError of the else branch is raised inside the try and so
\* reaches the `except Exception`, which logs it and returns 0.0.
CalculateSimilarity(embedding1, embedding2, method) ==
    CASE method = "cosine" ->
            [raised |-> FALSE, value |-> CosineSimilarity(embedding1, embedding2)]
      [] method = "euclidean" ->
            [raised |-> FALSE, value |-> EuclideanSimilarity(embedding1, embedding2)]
      [] method = "dot" ->
            [raised |-> FALSE, value |-> 1000 * Dot(embedding1, embedding2)]
      [] OTHER -> [raised |-> FALSE, value |-> 0]

\* the calls made
InitSimCalls ==
    fn \in [pc : {"called"}, embedding1 : Vectors, embedding2 : Vectors,
            method : CallMethods, result : {None}]

InitSim == InitGenState /\ InitMigState /\ InitRtState /\ InitSimCalls /\ vstore = EmptyVectorStore

\* the awaited calculate_similarity call returns
SimilarityReturns ==
    /\ fn.pc = "called"
    /\ fn' = [fn EXCEPT !.pc = "returned",
                        !.result = Some(CalculateSimilarity(fn.embedding1, fn.embedding2,
                                                            fn.method))]
    /\ UNCHANGED <<genVars, migVars, rt, vstore>>

NextSim == SimilarityReturns

SpecSim == InitSim /\ [][NextSim]_vars

\* what calls with a supported method return for the embeddings of the model
LegitimateSimilarities ==
    {CalculateSimilarity(a, b, m) : a \in Vectors, b \in Vectors, m \in SimilarityMethods}

\* C17: similarity with an unknown method signals the failure: what the call
\* gives back (a returned value or a raised error) differs from everything a
\* call with a supported method gives back, a similarity of zero included.
C17_UnknownMethodSignalled ==
    (fn.pc = "returned" /\ fn.method \notin SimilarityMethods) =>
        fn.result[1] \notin LegitimateSimilarities

(***************************************************************************)
(* EmbeddingQualityValidator.validate_embedding                            *)
(***************************************************************************)
\* np.linalg.norm and np.var of a vector holding a NaN or an Inf: a value
\* every comparison with which is false
NaN == -1

\* np.linalg.norm of a finite vector of `dims` components with the given mean
\* (a whole number) and np.var (in ten-thousandths): sqrt(dims * (var + mean^2)),
\* in thousandths, to the hundredth
VectorNorm(dims, mean, variance) == 10 * ISqrt(dims * (variance + 10000 * mean * mean))

\* a finite vector of the model's expected dimension whose np.var is 1.0
UnitVarianceVector(model, mean) ==
    [dims |-> GetExpectedDimensions(model), finite |-> TRUE,
     magnitude |-> VectorNorm(GetExpectedDimensions(model), mean, 10000),
     variance |-> 10000]

\* len(embedding) of the vectors validated
Dims == {GetExpectedDimensions(m) : m \in EmbeddingModel} \cup {385}

\* norms (thousandths) and variances (ten-thousandths) at and around the
\* validator's thresholds
Magnitudes == {0, 100, 101, 9999, 10000}
Variances == {0, 10, 11}

\* norm^2 = dims * (var + mean^2) >= dims * var
Consistent(e) == e.magnitude * e.magnitude >= 100 * e.dims * e.variance

\* the vectors validated, by what the validator's checks read of them
ValidatedVectors ==
    {e \in [dims : Dims, finite : {TRUE}, magnitude : Magnitudes, variance : Variances] :
        Consistent(e)}
    \cup {[dims |-> d, finite |-> FALSE, magnitude |-> NaN, variance |-> NaN] : d \in Dims}
    \cup {UnitVarianceVector(m, mean) : m \in SupportedModels, mean \in {0, 1}}

\* the texts validated: of 5, 10 and 11 characters
ValidatedTexts == {"short", "ten chars!", "eleven char"}

InitValCalls ==
    fn \in [pc : {"called"}, embedding : ValidatedVectors, original_text : ValidatedTexts,
            model : EmbeddingModel, result : {None}]

InitVal == InitGenState /\ InitMigState /\ InitRtState /\ InitValCalls /\ vstore = EmptyVectorStore

\* the awaited validate_embedding call returns; with a vector, a str and an
\* EmbeddingModel member for arguments nothing in its try block raises
ValidationReturns ==
    /\ fn.pc = "called"
    /\ fn' = [fn EXCEPT !.pc = "returned",
                        !.result = Some(ValidateEmbedding(fn.embedding, fn.original_text,
                                                          fn.model))]
    /\ UNCHANGED <<genVars, migVars, rt, vstore>>

NextVal == ValidationReturns

SpecVal == InitVal /\ [][NextVal]_vars

\* the weights (hundredths) of the checks the validated call's arguments satisfy
SatisfiedWeights ==
    LET e == fn.embedding
    IN (IF e.dims = GetExpectedDimensions(fn.model) THEN 30 ELSE 0)
       + (IF e.finite THEN 20 ELSE 0)
       + (IF e.magnitude > 100 /\ e.magnitude < 10000 THEN 20 ELSE 0)
       + (IF e.variance > 10 THEN 15 ELSE 0)
       + (IF Len(fn.original_text) > 10 THEN 15 ELSE 0)

\* C18: the validator's score is the sum of the weights of the satisfied
\* checks (dimension 0.30, no NaN/Inf 0.20, magnitude strictly between 0.1 and
\* 10.0 0.20, variance > 0.001 0.15, text longer than 10 characters 0.15),
\* capped at 1.0, hence within [0,1]; and the call changes nothing but its
\* own result.
C18_ScoreIsWeightSum ==
    /\ [](fn.pc = "returned" =>
            /\ fn.result[1] = Min(SatisfiedWeights, 100)
            /\ 0 <= fn.result[1] /\ fn.result[1] <= 100)
    /\ [][UNCHANGED <<genVars, migVars, rt, vstore>>
          /\ fn'.embedding = fn.embedding /\ fn'.original_text = fn.original_text
          /\ fn'.model = fn.model]_vars

\* a call whose arguments satisfy every check has returned the full score, and
\* the magnitude was just inside the range
C18_Witness ==
    /\ fn.pc = "returned"
    /\ fn.embedding.magnitude = 9999
    /\ fn.embedding.variance = 11
    /\ SatisfiedWeights = 100
    /\ fn.result[1] = 100

\* C19: for every supported model, a finite vector of the model's expected
\* dimension with unit variance, validated against a text longer than 10
\* characters, scores more than 0.85.
C19_UnitVarianceScoresHigh ==
    ( /\ fn.pc = "returned"
      /\ fn.model \in SupportedModels
      /\ fn.embedding.finite
      /\ fn.embedding.variance = 10000
      /\ fn.embedding.dims = GetExpectedDimensions(fn.model)
      /\ Len(fn.original_text) > 10 )
    => fn.result[1] > 85

(***************************************************************************)
(* Vector documents per documentId and validate_migration                  *)
(***************************************************************************)
MaxMigrations == 2  \* vector documents inserted per source record

RECURSIVE CountDocuments(_, _)
\* count_documents("vectordocuments", {}) over the documentIds in ids
CountDocuments(docs, ids) ==
    IF ids = {} THEN 0
    ELSE LET d == CHOOSE x \in ids : TRUE
         IN docs[d] + CountDocuments(docs, ids \ {d})

\* a duplicate check that only matches groups of more than two documents
CheckDataIntegrityAboveTwo(docs) == Cardinality({d \in DOMAIN docs : docs[d] > 2})

\* VectorMigrator._check_data_integrity: the groups by documentId that count
\* more than one document
CheckDataIntegrity(docs) == Cardinality({d \in DOMAIN docs : docs[d] > 1})

\* the body of the `for record in batch` loop of _process_*_batch (lines 590-621)
\* for one source record: when the embedding succeeds and insert_document does
\* not raise, one more vector document with the record's documentId is in
\* the collection; otherwise the record is reported as failed and nothing is
\* written
MigrateRecord ==
    \E r \in SourceRecords, ok \in BOOLEAN :
        LET d == CreateVectorDocument(r, r.source_type).documentId
        IN /\ vstore.migrated[d] < MaxMigrations
           /\ vstore' = IF ok
                        THEN [vstore EXCEPT !.docs[d] = @ + 1, !.migrated[d] = @ + 1,
                                            !.report = None]
                        ELSE vstore
           /\ UNCHANGED <<genVars, migVars, rt, fn>>

\* VectorMigrator.validate_migration: the report, or {'error': ...} when one
\* of its store calls raises
ValidateMigration ==
    \E raises \in BOOLEAN :
        /\ vstore' = [vstore EXCEPT !.report =
              Some(IF raises
                   THEN [error |-> Some("store call failed"), total_vector_documents |-> 0,
                         duplicate_documents |-> 0]
                   ELSE [error |-> None,
                         total_vector_documents |-> CountDocuments(vstore.docs, DocumentIds),
                         duplicate_documents |-> CheckDataIntegrity(vstore.docs)])]
        /\ UNCHANGED <<genVars, migVars, rt, fn>>

NextDup ==
    \/ MigrateRecord
    \/ ValidateMigration

SpecDup == InitGen /\ [][NextDup]_vars

SampledDocuments ==
    {[has_embedding |-> FALSE, dims |-> 0]}
    \cup {[has_embedding |-> TRUE, dims |-> d] : d \in Dims}

\* the samples find_documents("vectordocuments", {}, limit=sample_size) returns
Samples == {<<d>> : d \in SampledDocuments}
           \cup {<<d, e>> : d \in SampledDocuments, e \in SampledDocuments}

RECURSIVE ValidateSampleFrom(_, _, _)
\* the loop of _validate_sample over the documents from the i-th: the
\* embedding check compares against the literal 1536
ValidateSampleFrom(sample_docs, i, results) ==
    IF i > Len(sample_docs) THEN results
    ELSE LET doc == sample_docs[i]
             checked ==
                IF ~doc.has_embedding THEN results
                ELSE IF doc.dims = 1536
                THEN [results EXCEPT !.valid_embeddings = @ + 1]
                ELSE [results EXCEPT !.issues = Append(@, doc.dims)]
         IN ValidateSampleFrom(sample_docs, i + 1, checked)

\* VectorMigrator._validate_sample: total_sample, valid_embeddings and the
\* dimensions named by the "Invalid embedding dimension" issues
ValidateSample(sample_docs) ==
    ValidateSampleFrom(sample_docs, 1,
        [total_sample |-> Len(sample_docs), valid_embeddings |-> 0, issues |-> <<>>])

\* the calls made: a migrator configured with an embedding model validates a sample
InitSampleCalls ==
    fn \in [pc : {"called"}, embedding_model : SupportedModels, sample_docs : Samples,
            result : {None}]

InitSample ==
    InitGenState /\ InitMigState /\ InitRtState /\ InitSampleCalls /\ vstore = EmptyVectorStore

\* the awaited _validate_sample call of validate_migration returns
SampleValidated ==
    /\ fn.pc = "called"
    /\ fn' = [fn EXCEPT !.pc = "returned", !.result = Some(ValidateSample(fn.sample_docs))]
    /\ UNCHANGED <<genVars, migVars, rt, vstore>>

NextSample == SampleValidated

SpecSample == InitSample /\ [][NextSample]_vars

\* C21: validate_migration checks each sampled document's embedding against
\* the expected dimension of the model the migrator is configured with: the
\* documents whose embedding has that dimension are the ones counted as valid,
\* and the documents with an embedding of another dimension are the ones
\* reported as issues.
C21_SampleUsesConfiguredModel ==
    fn.pc = "returned" =>
        LET expected == ModelDimensions(fn.embedding_model)
            docs == fn.sample_docs
            withDims(ok) == {i \in DOMAIN docs :
                               docs[i].has_embedding /\ ((docs[i].dims = expected) = ok)}
        IN /\ fn.result[1].valid_embeddings = Cardinality(withDims(TRUE))
           /\ Len(fn.result[1].issues) = Cardinality(withDims(FALSE))

(***************************************************************************)
(* VectorMigrator._extract_analytics_content                               *)
(***************************************************************************)
\* [:5] of the sorted pageViews items
TopPagesLimit == 5

Pages == {"/home", "/swap", "/pool"}
ViewCounts == {1, 2}

\* record['pageViews']: a dict, i.e. (page, views) items in insertion order,
\* no page twice
PageViewDicts ==
    {<<>>}
    \cup {<<[page |-> p, views |-> v]>> : p \in Pages, v \in ViewCounts}
    \cup {d \in {<<[page |-> p, views |-> v], [page |-> q, views |-> w]>> :
                     p \in Pages, q \in Pages, v \in ViewCounts, w \in ViewCounts} :
             d[1].page # d[2].page}

\* dict equality: the same items, whatever the insertion order
DictEqual(d, e) == Range(d) = Range(e) /\ Len(d) = Len(e)

RECURSIVE InsertByViews(_, _)
\* item placed behind every item of `sorted` with at least as many views
InsertByViews(sorted, item) ==
    IF sorted = <<>> THEN <<item>>
    ELSE IF sorted[1].views >= item.views
    THEN <<sorted[1]>> \o InsertByViews(Tail(sorted), item)
    ELSE <<item>> \o sorted

RECURSIVE SortedByViews(_, _)
\* sorted(page_views.items(), key=lambda x: x[1], reverse=True): a stable
\* sort, items with equal views keep their insertion order
SortedByViews(items, sorted) ==
    IF items = <<>> THEN sorted
    ELSE SortedByViews(Tail(items), InsertByViews(sorted, items[1]))

\* the "Top Pages: ..." part
TopPages(page_views) ==
    LET all == SortedByViews(page_views, <<>>)
        top_pages == SubSeq(all, 1, Min(Len(all), TopPagesLimit))
    IN "Top Pages: "
       \o Join(", ", [i \in DOMAIN top_pages |->
                         top_pages[i].page \o ": " \o ToString(top_pages[i].views)])

\* the analytics records extracted: siteId present or not, totalVisitors,
\* pageViews; the other counters and userJourneys are absent
AnalyticsRecords ==
    [siteId : {None, Some("site_1")}, totalVisitors : {1000}, pageViews : PageViewDicts]

\* record equality: equal fields, the pageViews dicts compared as dicts
RecordEqual(r, s) ==
    /\ r.siteId = s.siteId
    /\ r.totalVisitors = s.totalVisitors
    /\ DictEqual(r.pageViews, s.pageViews)

\* VectorMigrator._extract_analytics_content
ExtractAnalyticsContent(record) ==
    LET basic == << "Site ID: " \o (IF record.siteId = None THEN "unknown"
                                    ELSE record.siteId[1]),
                    "Total Visitors: " \o ToString(record.totalVisitors),
                    "Unique Visitors: 0",
                    "Web3 Visitors: 0",
                    "Wallets Connected: 0",
                    "Total Page Views: 0" >>
        content_parts == IF record.pageViews # <<>>
                         THEN Append(basic, TopPages(record.pageViews))
                         ELSE basic
    IN Join(" | ", content_parts)

\* two extractions, of two equal records
InitExtractCalls ==
    fn \in {c \in [pc : {"called"}, record1 : AnalyticsRecords, record2 : AnalyticsRecords,
                   content1 : {None}, content2 : {None}] :
               RecordEqual(c.record1, c.record2)}

InitExtract ==
    InitGenState /\ InitMigState /\ InitRtState /\ InitExtractCalls /\ vstore = EmptyVectorStore

\* both awaited _extract_analytics_content calls return
ContentExtracted ==
    /\ fn.pc = "called"
    /\ fn' = [fn EXCEPT !.pc = "returned",
                        !.content1 = Some(ExtractAnalyticsContent(fn.record1)),
                        !.content2 = Some(ExtractAnalyticsContent(fn.record2))]
    /\ UNCHANGED <<genVars, migVars, rt, vstore>>

NextExtract == ContentExtracted

SpecExtract == InitExtract /\ [][NextExtract]_vars

\* C22: the content extractors are deterministic functions of the record: two
\* equal records (the same pageViews mapping built in a different insertion
\* order included) yield the same extracted string.
C22_ExtractDeterministic ==
    (fn.pc = "returned" /\ RecordEqual(fn.record1, fn.record2)) =>
        fn.content1 = fn.content2

RecordBatches ==
    {<<r>> : r \in SourceRecords}
    \cup {b \in {<<r, s>> : r \in SourceRecords, s \in SourceRecords} :
             b[1].source_type = b[2].source_type /\ b[1].id # b[2].id}

\* what can happen to one record in the try of lines 590-621: the embedding
\* fails (success = False), the extraction raises before there is an embedding
\* result, the embedding succeeds and _create_vector_document or
\* insert_document raises, or the document is inserted
RecordOutcomes == {"embedding_failed", "raised", "insert_raised", "inserted"}

\* the embedding succeeded: the `if embedding_result.success` branch was entered
Embedded(outcome) == outcome \in {"insert_raised", "inserted"}

\* a loop body that writes the vector document whatever the embedding result
RecordStepInsertAlways(docs, record, outcome) ==
    LET d == CreateVectorDocument(record, record.source_type).documentId
    IN [docs |-> [docs EXCEPT ![d] = @ + 1],
        result |-> IF outcome = "inserted"
                   THEN [success |-> TRUE, record_id |-> Some(record.id)]
                   ELSE [success |-> FALSE, record_id |-> None]]

\* the body of `for record in batch` (lines 589-621): the collection and the
\* entry appended to results
RecordStep(docs, record, outcome) ==
    LET d == CreateVectorDocument(record, record.source_type).documentId
    IN IF outcome = "inserted"
       THEN [docs |-> [docs EXCEPT ![d] = @ + 1],
             result |-> [success |-> TRUE, record_id |-> Some(record.id)]]
       ELSE [docs |-> docs, result |-> [success |-> FALSE, record_id |-> None]]

\* the collection before the batch: empty, or holding a document of an earlier
\* migration of record "a" of "analytics"
StoresBeforeBatch ==
    {EmptyVectorStore,
     [EmptyVectorStore EXCEPT !.docs["analytics_a"] = 1, !.migrated["analytics_a"] = 1]}

\* a _process_*_batch call at the head of its loop; outcomes and before are
\* history: what happened to each record so far, the collection at the call
InitProcCalls ==
    /\ vstore \in StoresBeforeBatch
    /\ fn \in [pc : {"loop"}, batch : RecordBatches, results : {<<>>}, outcomes : {<<>>},
               before : {vstore.docs}]

InitProc == InitGenState /\ InitMigState /\ InitRtState /\ InitProcCalls

\* one iteration of the loop; after the last record the results are returned
ProcessRecord ==
    /\ fn.pc = "loop"
    /\ \E outcome \in RecordOutcomes :
          LET i == Len(fn.results) + 1
              record == fn.batch[i]
              step == RecordStep(vstore.docs, record, outcome)
              d == CreateVectorDocument(record, record.source_type).documentId
          IN /\ vstore' = [vstore EXCEPT !.docs = step.docs,
                                         !.migrated[d] = IF step.docs = vstore.docs
                                                         THEN @ ELSE @ + 1,
                                         !.report = None]
             /\ fn' = [fn EXCEPT !.results = Append(@, step.result),
                                 !.outcomes = Append(@, outcome),
                                 !.pc = IF i = Len(fn.batch) THEN "returned" ELSE "loop"]
    /\ UNCHANGED <<genVars, migVars, rt>>

NextProc == ProcessRecord

SpecProc == InitProc /\ [][NextProc]_vars

\* the vector documents with documentId d the records 1..n of the batch account
\* for, when a document is written for record i exactly if wrote[i]
WrittenFor(d, n, wrote) ==
    Cardinality({i \in 1..n :
        wrote[i] /\ CreateVectorDocument(fn.batch[i], fn.batch[i].source_type).documentId = d})

\* one outcome per record so far, in record order
OneOutcomePerRecord ==
    /\ Len(fn.results) = Len(fn.outcomes)
    /\ Len(fn.results) <= Len(fn.batch)
    /\ fn.pc = "returned" => Len(fn.results) = Len(fn.batch)
    /\ \A i \in DOMAIN fn.results :
          fn.results[i].success => fn.results[i].record_id = Some(fn.batch[i].id)

C25_BoundedWorkers ==
    /\ [](Cardinality(Running) <= batch.max_workers)
    /\ [][(batch'.i # batch.i \/ workers'.fut = <<>>) =>
             \A j \in DOMAIN workers.fut : workers.fut[j].st = "done"]_vars

\* a chunk of two texts with a pool of one thread: one call runs, the other waits
C25_Witness ==
    /\ batch.pc = "chunk"
    /\ batch.max_workers = 1
    /\ Len(workers.fut) = 2
    /\ workers.fut[1].st = "running"
    /\ workers.fut[2].st = "queued"

\* C26: caching is transparent with respect to context: a successful
\* generate_embedding(text, model, context) with use_cache=true returns the
\* provider's vector for the text preprocessed with that call's own context, as
\* the same call with use_cache=false would.
C26_CacheTransparentForContext ==
    \A n \in DOMAIN calls.log :
        LET call == calls.log[n]
        IN (call.use_cache /\ ~call.raised /\ call.result.success) =>
               call.result.embedding[1].of = PreprocessText(call.text, call.context)

\* C27: the shared cache is safe under the batch's concurrent workers: after a
\* generate_batch_embeddings call with use_cache=true, whatever its texts and the
\* interleaving of its workers, the embedding_cache collection holds at most one
\* document per cache_key.
C27_OneCacheEntryPerKey ==
    (batch.pc = "done" /\ batch.use_cache) =>
        \A m, n \in DOMAIN cacheDb : cacheDb[m].cache_key = cacheDb[n].cache_key => m = n

\* the first migrate_all_data run of a new migrator has gone through all its
\* source types and returned, no pause having stopped it and no store call
\* having raised
FreshRunCompleted ==
    /\ hist.runs = 1
    /\ hist.restarts = 0
    /\ hist.result.returned
    /\ hist.result.success
    /\ ~hist.result.stopped_by_pause
    /\ ~hist.store_raised
    /\ hist.result.sources_done = Len(config.source_types)

FilesBeforeSave ==
    {NoFile} \cup
    {[state |-> "valid", progress |-> CheckpointProgress(p)] :
        p \in {q \in RoundTripProgress : q.successful_records = 0 /\ q.failed_records = 0}}

InitSaveCalls ==
    /\ ckptFile \in FilesBeforeSave
    /\ fn = [pc |-> "called", before |-> ckptFile]

InitSave ==
    /\ InitGenState
    /\ config \in Configs
    /\ progress \in RoundTripProgress
    /\ flags = NewFlags
    /\ store = IdleStore
    /\ run = IdleRun
    /\ hist = NewHist
    /\ InitRtState
    /\ vstore = EmptyVectorStore
    /\ InitSaveCalls

\* await self._save_checkpoint()
SaveCheckpointReturns ==
    /\ fn.pc = "called"
    /\ ckptFile' = SaveCheckpoint(progress, config, ckptFile)
    /\ fn' = [fn EXCEPT !.pc = "saved"]
    /\ UNCHANGED progress

\* await self._load_checkpoint(), afterwards
LoadCheckpointReturns ==
    /\ fn.pc = "saved"
    /\ progress' = LoadCheckpoint(progress, ckptFile)
    /\ fn' = [fn EXCEPT !.pc = "loaded"]
    /\ UNCHANGED ckptFile

NextSave ==
    /\ \/ SaveCheckpointReturns
       \/ LoadCheckpointReturns
    /\ UNCHANGED <<genVars, config, flags, store, run, hist, rt, vstore>>

SpecSave == InitSave /\ [][NextSave]_vars

\* C30: saving a checkpoint is all-or-nothing: when _save_checkpoint fails
\* part-way, as it does while serializing a config that holds enum members, the
\* checkpoint file is left as it was before the call, and a checkpoint saved
\* before can still be loaded and restores its progress values.
C30_SaveAllOrNothing ==
    (fn.pc \in {"saved", "loaded"} /\ ~JsonSerializable(config)) =>
        /\ ckptFile = fn.before
        /\ (fn.pc = "loaded" /\ fn.before.state = "valid") =>
               CheckpointProgress(progress) = fn.before.progress

====
